---- MODULE Spec2Model ----
(***************************************************************************)
(* Model of the diesel backup-generator module of CLOVER                   *)
(* (src/src/clover/simulation/diesel.py): the threshold calibration        *)
(* _find_deficit_threshold, the dispatch get_diesel_energy_and_times and   *)
(* the fuel model get_diesel_fuel_usage.                                   *)
(*                                                                         *)
(* Floating-point numbers are modelled as exact rationals [n, d] in lowest *)
(* terms with d > 0; an hourly series (a one-column DataFrame) is a        *)
(* sequence indexed by hour.                                               *)
(***************************************************************************)
EXTENDS Integers, Sequences, FiniteSets, TLC

VARIABLES pc, unmet_energy, blackouts, backup_threshold, energy_threshold,
          diesel_energy, diesel_times, capacity, diesel_generator, fuel_usage,
          raised,
          parse_pc, diesel_inputs, diesel_backup_generator, minigrid,
          parse_raised,
          heater_pc, input_data, heater, heater_raised,
          conversion_inputs, parsed_convertors, attempts, convertors,
          invocations, shared_generator

\* The state of the dispatch and fuel functions.
chainVars == <<pc, unmet_energy, blackouts, backup_threshold, energy_threshold,
               diesel_energy, diesel_times, capacity, diesel_generator,
               fuel_usage, raised>>

\* The state of parse_input_files.
parseVars == <<parse_pc, diesel_inputs, diesel_backup_generator, minigrid,
               parse_raised>>

\* The state of DieselWaterHeater.from_dict.
heaterVars == <<heater_pc, input_data, heater, heater_raised>>

\* The state of the conversion-inputs loop of parse_input_files.
conversionVars == <<conversion_inputs, parsed_convertors, attempts, convertors>>

\* The state of two concurrent invocations of the chain threshold ->
\* dispatch -> fuel usage, and the generator descriptor they share.
concurrentVars == <<invocations, shared_generator>>

vars == <<chainVars, parseVars, heaterVars, conversionVars, concurrentVars>>

(***************************************************************************)
(* Bounds of the model.                                                    *)
(***************************************************************************)
MaxHours == 3
MaxEnergy == 3
TargetDen == 4
MaxCapacity == 2

(***************************************************************************)
(* Exact rational arithmetic standing for the float arithmetic.            *)
(***************************************************************************)
Abs(x) == IF x < 0 THEN -x ELSE x

RECURSIVE Gcd(_, _)
Gcd(a, b) == IF b = 0 THEN a ELSE Gcd(b, a % b)

Rat(n, d) ==
    LET g == Gcd(Abs(n), Abs(d))
        s == IF d < 0 THEN -1 ELSE 1
    IN  [n |-> (s * n) \div g, d |-> (s * d) \div g]

FromInt(i) == [n |-> i, d |-> 1]
RAdd(x, y) == Rat(x.n * y.d + y.n * x.d, x.d * y.d)
RSub(x, y) == Rat(x.n * y.d - y.n * x.d, x.d * y.d)
RMul(x, y) == Rat(x.n * y.n, x.d * y.d)
RDiv(x, y) == Rat(x.n * y.d, x.d * y.n)
RLt(x, y) == x.n * y.d < y.n * x.d
RLe(x, y) == x.n * y.d <= y.n * x.d
RGt(x, y) == RLt(y, x)
RGe(x, y) == RLe(y, x)
RFloor(x) == x.n \div x.d
Zero == FromInt(0)
\* The float nan: every comparison with it is false.
NaN == [n |-> 0, d |-> 0]
Bool2Rat(b) == IF b THEN FromInt(1) ELSE FromInt(0)

(***************************************************************************)
(* numpy reductions over a one-column series.                              *)
(***************************************************************************)
RECURSIVE SumSeq(_)
SumSeq(s) == IF s = <<>> THEN 0 ELSE Head(s) + SumSeq(Tail(s))

NpMean(s) == Rat(SumSeq(s), Len(s))

NpMax(s) == CHOOSE m \in {s[i] : i \in DOMAIN s} : \A i \in DOMAIN s : s[i] <= m

\* np.percentile taking the lower neighbour instead of interpolating.
NpPercentileLower(a, q) ==
    LET sorted == SortSeq(a, LAMBDA x, y : x < y)
        virtual_index == RMul(RDiv(q, FromInt(100)), FromInt(Len(a) - 1))
    IN  FromInt(sorted[RFloor(virtual_index) + 1])

\* np.percentile reading the series in hour order, without sorting it.
NpPercentileUnsorted(a, q) ==
    LET n == Len(a)
        virtual_index == RMul(RDiv(q, FromInt(100)), FromInt(n - 1))
        previous == RFloor(virtual_index)
        next == IF previous + 1 > n - 1 THEN n - 1 ELSE previous + 1
        gamma == RSub(virtual_index, FromInt(previous))
    IN  RAdd(FromInt(a[previous + 1]),
             RMul(FromInt(a[next + 1] - a[previous + 1]), gamma))

\* np.percentile(a, q) with the default linear method: the values are sorted,
\* the virtual index is q / 100 * (n - 1), and the result interpolates
\* linearly between the neighbours of the virtual index.
NpPercentile(a, q) ==
    LET sorted == SortSeq(a, LAMBDA x, y : x < y)
        n == Len(a)
        virtual_index == RMul(RDiv(q, FromInt(100)), FromInt(n - 1))
        previous == RFloor(virtual_index)
        next == IF previous + 1 > n - 1 THEN n - 1 ELSE previous + 1
        gamma == RSub(virtual_index, FromInt(previous))
        lo == sorted[previous + 1]
        hi == sorted[next + 1]
    IN  RAdd(FromInt(lo), RMul(FromInt(hi - lo), gamma))

(***************************************************************************)
(* Faulty variants of _find_deficit_threshold.                             *)
(***************************************************************************)
\* The sentinel is the maximum itself, without the margin of 1.
FindDeficitThresholdNoMargin(unmet, blk, target) ==
    LET reliability_difference == RSub(NpMean(blk), target)
    IN  IF RGt(reliability_difference, Zero)
        THEN NpPercentile(unmet,
                 RMul(FromInt(100), RSub(FromInt(1), reliability_difference)))
        ELSE FromInt(NpMax(unmet))

\* The percentile is 100 * gap instead of 100 * (1 - gap).
FindDeficitThresholdGapPercentile(unmet, blk, target) ==
    LET reliability_difference == RSub(NpMean(blk), target)
    IN  IF RGt(reliability_difference, Zero)
        THEN NpPercentile(unmet, RMul(FromInt(100), reliability_difference))
        ELSE RAdd(FromInt(NpMax(unmet)), FromInt(1))

\* The gap is taken with the wrong sign, target - mean(blackouts).
FindDeficitThresholdReversedGap(unmet, blk, target) ==
    LET reliability_difference == RSub(target, NpMean(blk))
    IN  IF RGt(reliability_difference, Zero)
        THEN NpPercentile(unmet,
                 RMul(FromInt(100), RSub(FromInt(1), reliability_difference)))
        ELSE RAdd(FromInt(NpMax(unmet)), FromInt(1))

\* The percentile ignores the target: 100 * (1 - mean(blackouts)).
FindDeficitThresholdIgnoringTarget(unmet, blk, target) ==
    LET reliability_difference == RSub(NpMean(blk), target)
    IN  IF RGt(reliability_difference, Zero)
        THEN NpPercentile(unmet,
                 RMul(FromInt(100), RSub(FromInt(1), NpMean(blk))))
        ELSE RAdd(FromInt(NpMax(unmet)), FromInt(1))

\* The margin of 1 is added to the percentile as well as to the maximum.
FindDeficitThresholdMarginEverywhere(unmet, blk, target) ==
    LET reliability_difference == RSub(NpMean(blk), target)
    IN  IF RGt(reliability_difference, Zero)
        THEN RAdd(NpPercentile(unmet,
                      RMul(FromInt(100), RSub(FromInt(1), reliability_difference))),
                  FromInt(1))
        ELSE RAdd(FromInt(NpMax(unmet)), FromInt(1))

\* The percentile branch is taken when the gap is zero as well.
FindDeficitThresholdInclusiveGap(unmet, blk, target) ==
    LET reliability_difference == RSub(NpMean(blk), target)
    IN  IF RGe(reliability_difference, Zero)
        THEN NpPercentile(unmet,
                 RMul(FromInt(100), RSub(FromInt(1), reliability_difference)))
        ELSE RAdd(FromInt(NpMax(unmet)), FromInt(1))

(***************************************************************************)
(* _find_deficit_threshold                                                 *)
(***************************************************************************)
_find_deficit_threshold(unmet, blk, target) ==
    LET blackout_percentage == NpMean(blk)
        reliability_difference == RSub(blackout_percentage, target)
        percentile_threshold ==
            RMul(FromInt(100), RSub(FromInt(1), reliability_difference))
    IN  IF RGt(reliability_difference, Zero)
        THEN NpPercentile(unmet, percentile_threshold)
        ELSE RAdd(FromInt(NpMax(unmet)), FromInt(1))

(***************************************************************************)
(* The outcomes of _find_deficit_threshold on any pair of series, empty    *)
(* ones included: a returned threshold (raised = "none") or the exception  *)
(* that leaves the function.  The function validates nothing.  On a series *)
(* of no rows the reductions give nan, or the column lookup [0] fails with *)
(* KeyError when the frame has no column either; np.percentile of no       *)
(* values gives nan or fails with IndexError, depending on the numpy       *)
(* version.                                                                *)
(***************************************************************************)
Returned(threshold) == [raised |-> "none", threshold |-> threshold]
Thrown(exception) == [raised |-> exception, threshold |-> NaN]

MaxPlusOneOutcomes(unmet) ==
    IF Len(unmet) = 0
    THEN {Thrown("KeyError"), Returned(NaN)}
    ELSE {Returned(RAdd(FromInt(NpMax(unmet)), FromInt(1)))}

FindDeficitThresholdOutcomes(unmet, blk, target) ==
    IF Len(blk) = 0
    THEN {Thrown("KeyError")} \cup MaxPlusOneOutcomes(unmet)
    ELSE IF Len(unmet) = 0
         THEN IF RGt(RSub(NpMean(blk), target), Zero)
              THEN {Thrown("IndexError"), Returned(NaN)}
              ELSE MaxPlusOneOutcomes(unmet)
         ELSE {Returned(_find_deficit_threshold(unmet, blk, target))}

(***************************************************************************)
(* The per-hour comparison and products of get_diesel_energy_and_times.    *)
(***************************************************************************)
\* Faulty variant: the comparison is strict.
StrictlyAboveThreshold(value, threshold) == RGt(FromInt(value), threshold)

AtOrAboveThreshold(value, threshold) ==
    threshold # NaN /\ RGe(FromInt(value), threshold)

\* Faulty variant: the masked energy is written in reverse hour order.
DieselEnergyReversed(unmet, threshold) ==
    [h \in DOMAIN unmet |->
        LET g == Len(unmet) + 1 - h
        IN  unmet[g] * (IF RGe(FromInt(unmet[g]), threshold) THEN 1 ELSE 0)]

\* Faulty variant: the energy is not masked by the comparison.
DieselEnergyUnmasked(unmet, threshold) == [h \in DOMAIN unmet |-> unmet[h]]

DieselEnergy(unmet, threshold) ==
    [h \in DOMAIN unmet |->
        unmet[h] * (IF AtOrAboveThreshold(unmet[h], threshold) THEN 1 ELSE 0)]

\* Faulty variant: the mask is multiplied by the energy instead of by 1.
DieselTimesTimesEnergy(unmet, threshold) ==
    [h \in DOMAIN unmet |->
        (IF RGe(FromInt(unmet[h]), threshold) THEN 1 ELSE 0) * unmet[h]]

\* Faulty variant: an hour is on when its deficit is below the threshold.
DieselTimesBelowThreshold(unmet, threshold) ==
    [h \in DOMAIN unmet |->
        (IF RLt(FromInt(unmet[h]), threshold) THEN 1 ELSE 0) * 1]

DieselTimes(unmet, threshold) ==
    [h \in DOMAIN unmet |->
        (IF AtOrAboveThreshold(unmet[h], threshold) THEN 1 ELSE 0) * 1]

(***************************************************************************)
(* The per-hour arithmetic of get_diesel_fuel_usage.                       *)
(***************************************************************************)
\* Faulty variant: a load factor equal to the minimum load counts as above.
AboveMinimumInclusive(load_factor, minimum_load) ==
    RMul(load_factor, Bool2Rat(RGe(load_factor, minimum_load)))

AboveMinimum(load_factor, minimum_load) ==
    RMul(load_factor, Bool2Rat(RGt(load_factor, minimum_load)))

\* Faulty variant: a load factor equal to the minimum load is not floored.
BelowMinimumStrict(load_factor, minimum_load) ==
    RMul(Bool2Rat(RLt(load_factor, minimum_load)), minimum_load)

\* Faulty variant: a load factor below the minimum is kept, not raised.
BelowMinimumNoFloor(load_factor, minimum_load) ==
    RMul(Bool2Rat(RLe(load_factor, minimum_load)), load_factor)

BelowMinimum(load_factor, minimum_load) ==
    RMul(Bool2Rat(RLe(load_factor, minimum_load)), minimum_load)

\* Faulty variant: the load factor is clamped to the rated capacity.
FuelUsageClamped(cap, generator, energy, times) ==
    [h \in DOMAIN energy |->
        LET ratio == RDiv(FromInt(energy[h]), FromInt(cap))
            load_factor == IF RGt(ratio, FromInt(1)) THEN FromInt(1) ELSE ratio
            effective == RMul(FromInt(times[h]),
                              RAdd(RMul(load_factor,
                                        Bool2Rat(RGt(load_factor, generator.minimum_load))),
                                   RMul(Bool2Rat(RLe(load_factor, generator.minimum_load)),
                                        generator.minimum_load)))
        IN  RMul(RMul(effective, FromInt(cap)), generator.diesel_consumption)]

\* Faulty variant: the result is not multiplied by diesel_times.
FuelUsageIgnoringTimes(cap, generator, energy, times) ==
    [h \in DOMAIN energy |->
        LET load_factor == RDiv(FromInt(energy[h]), FromInt(cap))
            effective == RAdd(AboveMinimum(load_factor, generator.minimum_load),
                              BelowMinimum(load_factor, generator.minimum_load))
        IN  RMul(RMul(effective, FromInt(cap)), generator.diesel_consumption)]

FuelUsage(cap, generator, energy, times) ==
    [h \in DOMAIN energy |->
        LET load_factor == RDiv(FromInt(energy[h]), FromInt(cap))
            above_minimum == AboveMinimum(load_factor, generator.minimum_load)
            below_minimum == BelowMinimum(load_factor, generator.minimum_load)
            effective == RMul(FromInt(times[h]), RAdd(above_minimum, below_minimum))
        IN  RMul(RMul(effective, FromInt(cap)), generator.diesel_consumption)]

(***************************************************************************)
(* Inputs.                                                                 *)
(***************************************************************************)
SeriesOver(S) == UNION {[1..n -> S] : n \in 1..MaxHours}

UnmetSeries == SeriesOver(0..MaxEnergy) \cup {<<0, 0, 5, 10, 0>>}

Targets == {Rat(k, TargetDen) : k \in 0..TargetDen}

Capacities == (1..MaxCapacity) \cup {10}

MinimumLoads == {Rat(0, 1), Rat(3, 10), Rat(1, 2), Rat(1, 1)}

Consumptions == {Rat(2, 5), Rat(1, 1)}

Generators ==
    [diesel_consumption : Consumptions, minimum_load : MinimumLoads,
     name : {"diesel"}]

NoSeries == <<>>
NoGenerator == [diesel_consumption |-> Zero, minimum_load |-> Zero, name |-> ""]

(***************************************************************************)
(* Configuration parsing: the diesel part of parse_input_files and         *)
(* DieselWaterHeater.from_dict.  A YAML mapping is a function from the     *)
(* keys it holds to their values.                                          *)
(***************************************************************************)
DIESEL_CONSUMPTION == "diesel_consumption"
MINIMUM_LOAD == "minimum_load"
ELECTRIC_POWER == "electric_power"
MAXIMUM_OUTPUT == "maximum_output"
NAME == "name"

Has(dict, key) == key \in DOMAIN dict

\* The generator built by parse_input_files, the minigrid that holds it and
\* the heater built by from_dict; built = FALSE stands for no instance.
NoBackupGenerator ==
    [built |-> FALSE, diesel_consumption |-> Zero, minimum_load |-> Zero]

NoMinigrid == [built |-> FALSE, diesel_backup_generator |-> NoBackupGenerator]

NoHeater ==
    [built |-> FALSE,
     input_resource_consumption |-> [diesel |-> Zero, electric |-> Zero],
     maximum_output_capacity |-> Zero, minimum_load |-> Zero, name |-> "",
     output_resource_type |-> "none"]

\* The diesel-inputs documents read_yaml can return: a mapping with any of
\* the two generator fields, or a document that is not a mapping.
DieselInputDocuments ==
    {[is_dict |-> TRUE,
      items |-> [k \in K |-> IF k = DIESEL_CONSUMPTION THEN c ELSE l]] :
         K \in SUBSET {DIESEL_CONSUMPTION, MINIMUM_LOAD},
         c \in Consumptions, l \in MinimumLoads}
    \cup {[is_dict |-> FALSE, items |-> <<>>]}

\* Faulty variant: a missing minimum load defaults to 0.
DieselInputsOutcomeDefaulting(inputs) ==
    IF ~inputs.is_dict
    THEN [raised |-> "InputFileError", generator |-> NoBackupGenerator]
    ELSE IF ~Has(inputs.items, DIESEL_CONSUMPTION)
         THEN [raised |-> "KeyError", generator |-> NoBackupGenerator]
         ELSE [raised |-> "none",
               generator |-> [built |-> TRUE,
                              diesel_consumption |-> inputs.items[DIESEL_CONSUMPTION],
                              minimum_load |->
                                  IF Has(inputs.items, MINIMUM_LOAD)
                                  THEN inputs.items[MINIMUM_LOAD] ELSE Zero]]

\* parse_input_files, diesel inputs: a document that is not a mapping raises
\* InputFileError; a missing key raises KeyError, which is logged and
\* re-raised unchanged; otherwise the generator is built from both fields.
DieselInputsOutcome(inputs) ==
    IF ~inputs.is_dict
    THEN [raised |-> "InputFileError", generator |-> NoBackupGenerator]
    ELSE IF ~Has(inputs.items, DIESEL_CONSUMPTION)
            \/ ~Has(inputs.items, MINIMUM_LOAD)
         THEN [raised |-> "KeyError", generator |-> NoBackupGenerator]
         ELSE [raised |-> "none",
               generator |-> [built |-> TRUE,
                              diesel_consumption |-> inputs.items[DIESEL_CONSUMPTION],
                              minimum_load |-> inputs.items[MINIMUM_LOAD]]]

\* The heater input mappings: any subset of the five fields.
HeaterValue(k, c) ==
    CASE k = DIESEL_CONSUMPTION -> c
      [] k = ELECTRIC_POWER -> Rat(1, 2)
      [] k = MAXIMUM_OUTPUT -> FromInt(10)
      [] k = MINIMUM_LOAD -> Rat(3, 10)
      [] k = NAME -> "heater"

HeaterInputs ==
    {[k \in K |-> HeaterValue(k, c)] :
         K \in SUBSET {DIESEL_CONSUMPTION, ELECTRIC_POWER, MAXIMUM_OUTPUT,
                       MINIMUM_LOAD, NAME},
         c \in Consumptions}

\* Convertor.__init__, the base class of the heater: it keeps its arguments
\* under the names the heater's properties read them by.
ConvertorInit(consumption, maximum_output, name, output) ==
    [input_resource_consumption |-> consumption,
     maximum_output_capacity |-> maximum_output,
     name |-> name,
     output_resource_type |-> output]

\* DieselWaterHeater.__init__
DieselWaterHeaterInit(consumption, maximum_output, load, name, output) ==
    LET convertor == ConvertorInit(consumption, maximum_output, name, output)
    IN  [built |-> TRUE,
         input_resource_consumption |-> convertor.input_resource_consumption,
         maximum_output_capacity |-> convertor.maximum_output_capacity,
         minimum_load |-> load, name |-> convertor.name,
         output_resource_type |-> convertor.output_resource_type]

\* The diesel_consumption property of DieselWaterHeater.
HeaterDieselConsumption(h) == h.input_resource_consumption.diesel

\* Faulty variant: the electric power is looked up unconditionally, so its
\* absence is a KeyError inside the guarded block.
FromDictOutcomeRequiringElectric(data) ==
    IF ~Has(data, DIESEL_CONSUMPTION) \/ ~Has(data, ELECTRIC_POWER)
    THEN [raised |-> "InputFileError", heater |-> NoHeater]
    ELSE IF ~Has(data, MAXIMUM_OUTPUT) \/ ~Has(data, MINIMUM_LOAD)
            \/ ~Has(data, NAME)
         THEN [raised |-> "KeyError", heater |-> NoHeater]
         ELSE [raised |-> "none",
               heater |->
                   DieselWaterHeaterInit(
                       [diesel |-> data[DIESEL_CONSUMPTION],
                        electric |-> data[ELECTRIC_POWER]],
                       data[MAXIMUM_OUTPUT], data[MINIMUM_LOAD], data[NAME],
                       "heat")]

\* DieselWaterHeater.from_dict: the lookup of the diesel consumption is
\* guarded and turns a KeyError into InputFileError; the lookups of the
\* maximum output, the minimum load and the name are not guarded.
FromDictOutcome(data) ==
    IF ~Has(data, DIESEL_CONSUMPTION)
    THEN [raised |-> "InputFileError", heater |-> NoHeater]
    ELSE IF ~Has(data, MAXIMUM_OUTPUT) \/ ~Has(data, MINIMUM_LOAD)
            \/ ~Has(data, NAME)
         THEN [raised |-> "KeyError", heater |-> NoHeater]
         ELSE [raised |-> "none",
               heater |->
                   DieselWaterHeaterInit(
                       [diesel |-> data[DIESEL_CONSUMPTION],
                        electric |-> IF Has(data, ELECTRIC_POWER)
                                     THEN data[ELECTRIC_POWER] ELSE Zero],
                       data[MAXIMUM_OUTPUT], data[MINIMUM_LOAD], data[NAME],
                       "heat")]

\* No parser is running.
ParsersIdle ==
    /\ parse_pc = "idle"
    /\ diesel_inputs = [is_dict |-> FALSE, items |-> <<>>]
    /\ diesel_backup_generator = NoBackupGenerator
    /\ minigrid = NoMinigrid
    /\ parse_raised = "none"
    /\ heater_pc = "idle"
    /\ input_data = <<>>
    /\ heater = NoHeater
    /\ heater_raised = "none"

\* No conversion inputs are being parsed and no concurrent invocation runs.
OthersIdle ==
    /\ conversion_inputs = <<>>
    /\ parsed_convertors = <<>>
    /\ attempts = <<>>
    /\ convertors = <<>>
    /\ invocations = <<>>
    /\ shared_generator = NoGenerator

(***************************************************************************)
(* State machine: the simulation supplies the two series and the target,   *)
(* then the dispatch is computed, then the fuel usage.                     *)
(***************************************************************************)
Init ==
    /\ pc = "start"
    /\ unmet_energy \in UnmetSeries
    /\ blackouts \in [DOMAIN unmet_energy -> {0, 1}]
    /\ backup_threshold \in Targets
    /\ energy_threshold = Zero
    /\ diesel_energy = NoSeries
    /\ diesel_times = NoSeries
    /\ capacity = 0
    /\ diesel_generator = NoGenerator
    /\ fuel_usage = NoSeries
    /\ raised = "none"
    /\ ParsersIdle
    /\ OthersIdle

\* Series of any length from 0 to MaxHours.
AnySeriesOver(S) == UNION {[1..n -> S] : n \in 0..MaxHours}

\* The calls the precondition excludes: an empty series, or two series of
\* different lengths.
InitInvalid ==
    /\ pc = "start"
    /\ unmet_energy \in AnySeriesOver(0..MaxEnergy)
    /\ blackouts \in AnySeriesOver({0, 1})
    /\ \/ Len(unmet_energy) = 0
       \/ Len(blackouts) = 0
       \/ Len(unmet_energy) # Len(blackouts)
    /\ backup_threshold \in Targets
    /\ energy_threshold = Zero
    /\ diesel_energy = NoSeries
    /\ diesel_times = NoSeries
    /\ capacity = 0
    /\ diesel_generator = NoGenerator
    /\ fuel_usage = NoSeries
    /\ raised = "none"
    /\ ParsersIdle
    /\ OthersIdle

GetDieselEnergyAndTimes ==
    /\ pc = "start"
    /\ \E outcome \in FindDeficitThresholdOutcomes(unmet_energy, blackouts,
                                                   backup_threshold) :
           IF outcome.raised = "none"
           THEN /\ energy_threshold' = outcome.threshold
                /\ diesel_energy' = DieselEnergy(unmet_energy, outcome.threshold)
                /\ diesel_times' = DieselTimes(unmet_energy, outcome.threshold)
                /\ pc' = "dispatched"
                /\ UNCHANGED raised
           ELSE /\ raised' = outcome.raised
                /\ pc' = "failed"
                /\ UNCHANGED <<energy_threshold, diesel_energy, diesel_times>>
    /\ UNCHANGED <<unmet_energy, blackouts, backup_threshold, capacity,
                   diesel_generator, fuel_usage>>
    /\ UNCHANGED <<parseVars, heaterVars, conversionVars, concurrentVars>>

GetDieselFuelUsage ==
    /\ pc = "dispatched"
    /\ \E cap \in Capacities, generator \in Generators :
           /\ capacity' = cap
           /\ diesel_generator' = generator
           /\ fuel_usage' = FuelUsage(cap, generator, diesel_energy, diesel_times)
    /\ pc' = "done"
    /\ UNCHANGED <<unmet_energy, blackouts, backup_threshold, energy_threshold,
                   diesel_energy, diesel_times, raised>>
    /\ UNCHANGED <<parseVars, heaterVars, conversionVars, concurrentVars>>

Next == GetDieselEnergyAndTimes \/ GetDieselFuelUsage

Spec == Init /\ [][Next]_vars

\* The same functions called outside their precondition.
SpecInvalid == InitInvalid /\ [][Next]_vars

(***************************************************************************)
(* The run of one configured system: the generator descriptor is           *)
(* constructed from the configuration and the capacity is fixed by the     *)
(* sizing before the functions are called, and the caller may assign to a  *)
(* field of the descriptor at any time.  DieselGenerator is a plain        *)
(* dataclass (not frozen), so the assignment takes effect.                 *)
(***************************************************************************)
ShortSeriesOver(S) == [1..1 -> S] \cup [1..2 -> S]

GeneratorNames == {"diesel", "renamed"}

InitConfigured ==
    /\ pc = "start"
    /\ unmet_energy \in ShortSeriesOver(0..MaxEnergy)
    /\ blackouts \in [DOMAIN unmet_energy -> {0, 1}]
    /\ backup_threshold \in Targets
    /\ energy_threshold = Zero
    /\ diesel_energy = NoSeries
    /\ diesel_times = NoSeries
    /\ capacity \in Capacities
    /\ diesel_generator \in Generators
    /\ fuel_usage = NoSeries
    /\ raised = "none"
    /\ ParsersIdle
    /\ OthersIdle

\* Faulty variant: the reassigned load factor is stored in the generator.
GetDieselFuelUsageStoringLoad ==
    /\ pc = "dispatched"
    /\ fuel_usage' = FuelUsage(capacity, diesel_generator, diesel_energy, diesel_times)
    /\ diesel_generator' = [diesel_generator EXCEPT !.minimum_load = FromInt(1)]
    /\ pc' = "done"
    /\ UNCHANGED <<unmet_energy, blackouts, backup_threshold, energy_threshold,
                   diesel_energy, diesel_times, raised, capacity>>
    /\ UNCHANGED <<parseVars, heaterVars, conversionVars, concurrentVars>>

\* get_diesel_fuel_usage called with the configured capacity and generator.
GetDieselFuelUsageConfigured ==
    /\ pc = "dispatched"
    /\ fuel_usage' = FuelUsage(capacity, diesel_generator, diesel_energy, diesel_times)
    /\ pc' = "done"
    /\ UNCHANGED <<unmet_energy, blackouts, backup_threshold, energy_threshold,
                   diesel_energy, diesel_times, raised, capacity, diesel_generator>>
    /\ UNCHANGED <<parseVars, heaterVars, conversionVars, concurrentVars>>

\* An assignment to a field of the DieselGenerator dataclass instance.
SetGeneratorField ==
    /\ \E generator \in [diesel_consumption : Consumptions,
                          minimum_load : MinimumLoads, name : GeneratorNames] :
           /\ generator # diesel_generator
           /\ \/ /\ generator.minimum_load = diesel_generator.minimum_load
                 /\ generator.name = diesel_generator.name
              \/ /\ generator.diesel_consumption = diesel_generator.diesel_consumption
                 /\ generator.name = diesel_generator.name
              \/ /\ generator.diesel_consumption = diesel_generator.diesel_consumption
                 /\ generator.minimum_load = diesel_generator.minimum_load
           /\ diesel_generator' = generator
    /\ UNCHANGED <<pc, unmet_energy, blackouts, backup_threshold, energy_threshold,
                   diesel_energy, diesel_times, raised, capacity, fuel_usage>>
    /\ UNCHANGED <<parseVars, heaterVars, conversionVars, concurrentVars>>

NextConfigured ==
    GetDieselEnergyAndTimes \/ GetDieselFuelUsageConfigured \/ SetGeneratorField

SpecConfigured == InitConfigured /\ [][NextConfigured]_vars

(***************************************************************************)
(* State machine of the configuration parsing: parse_input_files reads the *)
(* diesel inputs and later builds the minigrid; DieselWaterHeater.from_dict*)
(* is called on a heater mapping.                                          *)
(***************************************************************************)
InitParse ==
    /\ pc = "idle"
    /\ unmet_energy = NoSeries
    /\ blackouts = NoSeries
    /\ backup_threshold = Zero
    /\ energy_threshold = Zero
    /\ diesel_energy = NoSeries
    /\ diesel_times = NoSeries
    /\ capacity = 0
    /\ diesel_generator = NoGenerator
    /\ fuel_usage = NoSeries
    /\ raised = "none"
    /\ parse_pc = "diesel_inputs"
    /\ diesel_inputs \in DieselInputDocuments
    /\ diesel_backup_generator = NoBackupGenerator
    /\ minigrid = NoMinigrid
    /\ parse_raised = "none"
    /\ heater_pc = "call"
    /\ input_data \in HeaterInputs
    /\ heater = NoHeater
    /\ heater_raised = "none"
    /\ OthersIdle

\* parse_input_files, from reading the diesel inputs to building the
\* generator.
ParseDieselInputs ==
    /\ parse_pc = "diesel_inputs"
    /\ LET outcome == DieselInputsOutcome(diesel_inputs)
       IN  IF outcome.raised = "none"
           THEN /\ diesel_backup_generator' = outcome.generator
                /\ parse_pc' = "energy_system"
                /\ UNCHANGED parse_raised
           ELSE /\ parse_raised' = outcome.raised
                /\ parse_pc' = "failed"
                /\ UNCHANGED diesel_backup_generator
    /\ UNCHANGED <<diesel_inputs, minigrid>>
    /\ UNCHANGED <<chainVars, heaterVars, conversionVars, concurrentVars>>

\* parse_input_files, from the energy-system inputs to Minigrid.from_dict:
\* each of the other input files may be of the wrong type, which raises
\* InputFileError; otherwise the minigrid is built around the generator.
ParseMinigrid ==
    /\ parse_pc = "energy_system"
    /\ \E other_inputs_ok \in BOOLEAN :
           IF other_inputs_ok
           THEN /\ minigrid' = [built |-> TRUE,
                                diesel_backup_generator |-> diesel_backup_generator]
                /\ parse_pc' = "minigrid"
                /\ UNCHANGED parse_raised
           ELSE /\ parse_raised' = "InputFileError"
                /\ parse_pc' = "failed"
                /\ UNCHANGED minigrid
    /\ UNCHANGED <<diesel_inputs, diesel_backup_generator>>
    /\ UNCHANGED <<chainVars, heaterVars, conversionVars, concurrentVars>>

DieselWaterHeaterFromDict ==
    /\ heater_pc = "call"
    /\ LET outcome == FromDictOutcome(input_data)
       IN  IF outcome.raised = "none"
           THEN /\ heater' = outcome.heater
                /\ heater_pc' = "returned"
                /\ UNCHANGED heater_raised
           ELSE /\ heater_raised' = outcome.raised
                /\ heater_pc' = "failed"
                /\ UNCHANGED heater
    /\ UNCHANGED input_data
    /\ UNCHANGED <<chainVars, parseVars, conversionVars, concurrentVars>>

NextParse == ParseDieselInputs \/ ParseMinigrid \/ DieselWaterHeaterFromDict

SpecParse == InitParse /\ [][NextParse]_vars

(***************************************************************************)
(* parse_input_files, the loop over the conversion inputs.  Each entry of  *)
(* the YAML document is either not a dict or a dict; what each of the      *)
(* three from_dict parsers does with a dict entry is an input: it returns  *)
(* a convertor ("ok") or raises InputFileError or KeyError.                *)
(***************************************************************************)
MaxEntries == 2

ParserOutcomes == {"ok", "InputFileError", "KeyError"}

ConvertorNames == {"pump", "plant"}

NotADict ==
    [is_dict |-> FALSE, name |-> "", water_source |-> "ok", thermal |-> "ok",
     multi |-> "ok"]

ConversionEntries ==
    [is_dict : {TRUE}, name : ConvertorNames, water_source : ParserOutcomes,
     thermal : ParserOutcomes, multi : ParserOutcomes] \cup {NotADict}

ConversionDocuments == UNION {[1..n -> ConversionEntries] : n \in 0..MaxEntries}

Tried(parser, outcome) == [parser |-> parser, outcome |-> outcome]

NoConvertor == [name |-> "", parser |-> "none"]

Parsed(entry, parser) == [name |-> entry.name, parser |-> parser]

\* Faulty variant: the thermal desalination plant is tried after any
\* failure of the water source, and the multi-input convertor after any
\* failure of the plant.
ConversionEntryOutcomeCatchingAll(entry) ==
    IF ~entry.is_dict
    THEN [tried |-> <<>>, raised |-> "InputFileError", convertor |-> NoConvertor]
    ELSE IF entry.water_source = "ok"
    THEN [tried |-> <<Tried("WaterSource", "ok")>>, raised |-> "none",
          convertor |-> Parsed(entry, "WaterSource")]
    ELSE IF entry.thermal = "ok"
    THEN [tried |-> <<Tried("WaterSource", entry.water_source),
                      Tried("ThermalDesalinationPlant", "ok")>>,
          raised |-> "none",
          convertor |-> Parsed(entry, "ThermalDesalinationPlant")]
    ELSE [tried |-> <<Tried("WaterSource", entry.water_source),
                      Tried("ThermalDesalinationPlant", entry.thermal),
                      Tried("MultiInputConvertor", entry.multi)>>,
          raised |-> IF entry.multi = "ok" THEN "none" ELSE entry.multi,
          convertor |-> IF entry.multi = "ok"
                        THEN Parsed(entry, "MultiInputConvertor")
                        ELSE NoConvertor]

\* One iteration of the loop: the isinstance check, then the nested
\* try/except around the three from_dict calls.
ConversionEntryOutcome(entry) ==
    IF ~entry.is_dict
    THEN [tried |-> <<>>, raised |-> "InputFileError", convertor |-> NoConvertor]
    ELSE IF entry.water_source = "ok"
    THEN [tried |-> <<Tried("WaterSource", "ok")>>, raised |-> "none",
          convertor |-> Parsed(entry, "WaterSource")]
    ELSE IF entry.water_source = "KeyError"
    THEN [tried |-> <<Tried("WaterSource", "KeyError")>>, raised |-> "KeyError",
          convertor |-> NoConvertor]
    ELSE IF entry.thermal = "ok"
    THEN [tried |-> <<Tried("WaterSource", "InputFileError"),
                      Tried("ThermalDesalinationPlant", "ok")>>,
          raised |-> "none",
          convertor |-> Parsed(entry, "ThermalDesalinationPlant")]
    ELSE IF entry.thermal = "InputFileError"
    THEN [tried |-> <<Tried("WaterSource", "InputFileError"),
                      Tried("ThermalDesalinationPlant", "InputFileError")>>,
          raised |-> "InputFileError", convertor |-> NoConvertor]
    ELSE [tried |-> <<Tried("WaterSource", "InputFileError"),
                      Tried("ThermalDesalinationPlant", "KeyError"),
                      Tried("MultiInputConvertor", entry.multi)>>,
          raised |-> IF entry.multi = "ok" THEN "none" ELSE entry.multi,
          convertor |-> IF entry.multi = "ok"
                        THEN Parsed(entry, "MultiInputConvertor")
                        ELSE NoConvertor]

\* The dict comprehension {convertor.name: convertor for convertor in
\* parsed_convertors}: a later convertor replaces an earlier one of the
\* same name.
ConvertorsByName(parsed) ==
    [n \in {parsed[i].name : i \in DOMAIN parsed} |->
        LET last == CHOOSE i \in DOMAIN parsed :
                        /\ parsed[i].name = n
                        /\ \A j \in DOMAIN parsed : parsed[j].name = n => j <= i
        IN  parsed[last]]

\* The diesel documents the conversion runs go on to read.
ConversionRunDieselDocuments ==
    {d \in DieselInputDocuments :
        d.is_dict =>
            /\ Has(d.items, DIESEL_CONSUMPTION) => d.items[DIESEL_CONSUMPTION] = Rat(2, 5)
            /\ Has(d.items, MINIMUM_LOAD) => d.items[MINIMUM_LOAD] = Rat(3, 10)}

InitConversion ==
    /\ pc = "idle"
    /\ unmet_energy = NoSeries
    /\ blackouts = NoSeries
    /\ backup_threshold = Zero
    /\ energy_threshold = Zero
    /\ diesel_energy = NoSeries
    /\ diesel_times = NoSeries
    /\ capacity = 0
    /\ diesel_generator = NoGenerator
    /\ fuel_usage = NoSeries
    /\ raised = "none"
    /\ parse_pc = "conversion"
    /\ diesel_inputs \in ConversionRunDieselDocuments
    /\ diesel_backup_generator = NoBackupGenerator
    /\ minigrid = NoMinigrid
    /\ parse_raised = "none"
    /\ heater_pc = "idle"
    /\ input_data = <<>>
    /\ heater = NoHeater
    /\ heater_raised = "none"
    /\ conversion_inputs \in ConversionDocuments
    /\ parsed_convertors = <<>>
    /\ attempts = <<>>
    /\ convertors = <<>>
    /\ invocations = <<>>
    /\ shared_generator = NoGenerator

\* One iteration of "for entry in conversion_inputs".
ParseConversionEntry ==
    /\ parse_pc = "conversion"
    /\ Len(attempts) < Len(conversion_inputs)
    /\ LET entry == conversion_inputs[Len(attempts) + 1]
           outcome == ConversionEntryOutcome(entry)
       IN  /\ attempts' = Append(attempts, [tried |-> outcome.tried,
                                            raised |-> outcome.raised])
           /\ IF outcome.raised = "none"
              THEN /\ parsed_convertors' = Append(parsed_convertors, outcome.convertor)
                   /\ UNCHANGED <<parse_pc, parse_raised>>
              ELSE /\ parse_raised' = outcome.raised
                   /\ parse_pc' = "failed"
                   /\ UNCHANGED parsed_convertors
    /\ UNCHANGED <<conversion_inputs, convertors>>
    /\ UNCHANGED <<diesel_inputs, diesel_backup_generator, minigrid>>
    /\ UNCHANGED <<chainVars, heaterVars, concurrentVars>>

\* The end of the loop: the convertors are keyed by name and parsing goes
\* on to the other input files.
FinishConversion ==
    /\ parse_pc = "conversion"
    /\ Len(attempts) = Len(conversion_inputs)
    /\ convertors' = ConvertorsByName(parsed_convertors)
    /\ parse_pc' = "diesel_inputs"
    /\ UNCHANGED <<conversion_inputs, parsed_convertors, attempts>>
    /\ UNCHANGED <<diesel_inputs, diesel_backup_generator, minigrid, parse_raised>>
    /\ UNCHANGED <<chainVars, heaterVars, concurrentVars>>

NextConversion ==
    ParseConversionEntry \/ FinishConversion \/ ParseDieselInputs \/ ParseMinigrid

SpecConversion == InitConversion /\ [][NextConversion]_vars

(***************************************************************************)
(* Two invocations of the chain threshold -> dispatch -> fuel usage run    *)
(* concurrently.  Each has its own arguments and its own local variables;  *)
(* both are given the same DieselGenerator instance.  A step is one of     *)
(* the function's reads of its arguments: the threshold, the dispatch, the *)
(* load factor (which reads minimum_load) and the fuel usage (which reads  *)
(* diesel_consumption).                                                    *)
(***************************************************************************)
Invocations == {1, 2}

IndicatorOf(unmet) == [h \in DOMAIN unmet |-> IF unmet[h] > 0 THEN 1 ELSE 0]

InvocationInputs ==
    {[pc |-> "start", unmet_energy |-> unmet, blackouts |-> IndicatorOf(unmet),
      backup_threshold |-> target, capacity |-> cap,
      energy_threshold |-> Zero, diesel_energy |-> NoSeries,
      diesel_times |-> NoSeries, load_factor |-> NoSeries,
      fuel_usage |-> NoSeries] :
         unmet \in [1..2 -> {0, 1, MaxEnergy}],
         target \in {Zero, Rat(1, 2)},
         cap \in {1, MaxCapacity}}

SharedGenerators ==
    {g \in Generators : g.minimum_load \in {Rat(3, 10), Rat(1, 1)}}

InitConcurrent ==
    /\ pc = "idle"
    /\ unmet_energy = NoSeries
    /\ blackouts = NoSeries
    /\ backup_threshold = Zero
    /\ energy_threshold = Zero
    /\ diesel_energy = NoSeries
    /\ diesel_times = NoSeries
    /\ capacity = 0
    /\ diesel_generator = NoGenerator
    /\ fuel_usage = NoSeries
    /\ raised = "none"
    /\ ParsersIdle
    /\ conversion_inputs = <<>>
    /\ parsed_convertors = <<>>
    /\ attempts = <<>>
    /\ convertors = <<>>
    /\ invocations \in [Invocations -> InvocationInputs]
    /\ shared_generator \in SharedGenerators

\* The load factor after its reassignment.
LoadFactor(cap, generator, energy, times) ==
    [h \in DOMAIN energy |->
        LET load_factor == RDiv(FromInt(energy[h]), FromInt(cap))
            above_minimum == AboveMinimum(load_factor, generator.minimum_load)
            below_minimum == BelowMinimum(load_factor, generator.minimum_load)
        IN  RMul(FromInt(times[h]), RAdd(above_minimum, below_minimum))]

\* The fuel usage computed from the reassigned load factor.
FuelOfLoad(cap, generator, load_factor) ==
    [h \in DOMAIN load_factor |->
        RMul(RMul(load_factor[h], FromInt(cap)), generator.diesel_consumption)]

ConcurrentUnchanged == UNCHANGED <<chainVars, parseVars, heaterVars, conversionVars>>

FindThreshold(i) ==
    /\ invocations[i].pc = "start"
    /\ invocations' = [invocations EXCEPT
           ![i].energy_threshold =
               _find_deficit_threshold(invocations[i].unmet_energy,
                                       invocations[i].blackouts,
                                       invocations[i].backup_threshold),
           ![i].pc = "threshold"]
    /\ UNCHANGED shared_generator
    /\ ConcurrentUnchanged

Dispatch(i) ==
    /\ invocations[i].pc = "threshold"
    /\ invocations' = [invocations EXCEPT
           ![i].diesel_energy = DieselEnergy(invocations[i].unmet_energy,
                                             invocations[i].energy_threshold),
           ![i].diesel_times = DieselTimes(invocations[i].unmet_energy,
                                           invocations[i].energy_threshold),
           ![i].pc = "dispatched"]
    /\ UNCHANGED shared_generator
    /\ ConcurrentUnchanged

\* Faulty variant: the consumption of the generator both invocations read
\* is rescaled in place to this invocation's capacity.
ComputeLoadFactorStoringFloor(i) ==
    /\ invocations[i].pc = "dispatched"
    /\ invocations' = [invocations EXCEPT
           ![i].load_factor = LoadFactor(invocations[i].capacity, shared_generator,
                                         invocations[i].diesel_energy,
                                         invocations[i].diesel_times),
           ![i].pc = "load"]
    /\ shared_generator' =
           [shared_generator EXCEPT
               !.diesel_consumption =
                   RMul(shared_generator.diesel_consumption,
                        FromInt(invocations[i].capacity))]
    /\ ConcurrentUnchanged

ComputeLoadFactor(i) ==
    /\ invocations[i].pc = "dispatched"
    /\ invocations' = [invocations EXCEPT
           ![i].load_factor = LoadFactor(invocations[i].capacity, shared_generator,
                                         invocations[i].diesel_energy,
                                         invocations[i].diesel_times),
           ![i].pc = "load"]
    /\ UNCHANGED shared_generator
    /\ ConcurrentUnchanged

ComputeFuelUsage(i) ==
    /\ invocations[i].pc = "load"
    /\ invocations' = [invocations EXCEPT
           ![i].fuel_usage = FuelOfLoad(invocations[i].capacity, shared_generator,
                                        invocations[i].load_factor),
           ![i].pc = "done"]
    /\ UNCHANGED shared_generator
    /\ ConcurrentUnchanged

NextConcurrent ==
    \E i \in Invocations :
        FindThreshold(i) \/ Dispatch(i) \/ ComputeLoadFactor(i) \/ ComputeFuelUsage(i)

SpecConcurrent == InitConcurrent /\ [][NextConcurrent]_vars

TypeOK ==
    /\ pc \in {"start", "dispatched", "done", "failed"}
    /\ Len(blackouts) = Len(unmet_energy)

(***************************************************************************)
(* Vocabulary of the properties.                                           *)
(***************************************************************************)
Hours == DOMAIN unmet_energy
NumHours == Len(unmet_energy)
Dispatched == pc \in {"dispatched", "done"}

\* gap = mean(blackouts) - target, computed from the inputs.
Gap == RSub(Rat(Cardinality({h \in Hours : blackouts[h] = 1}), NumHours),
            backup_threshold)

\* The blackout indicator agrees with the unmet energy.
BlackoutsMatchUnmet == \A h \in Hours : (blackouts[h] = 1) <=> (unmet_energy[h] > 0)

\* Hours that remain blacked out once the generator is dispatched.
Uncovered == {h \in Hours : blackouts[h] = 1 /\ diesel_times[h] = 0}

\* The largest value of the unmet-energy series.
IsMaxUnmet(m) == (\E h \in Hours : unmet_energy[h] = m)
                 /\ (\A h \in Hours : unmet_energy[h] <= m)

\* The number of hours whose unmet energy is below v, or equal to v at an
\* earlier hour: the rank (from 0) of hour h in the ascending order.
RankOf(h) == Cardinality({g \in Hours : unmet_energy[g] < unmet_energy[h]
                             \/ (unmet_energy[g] = unmet_energy[h] /\ g < h)})

\* s[k] of the ascending order, k counted from 0.
Ascending(k) == unmet_energy[CHOOSE h \in Hours : RankOf(h) = k]

RCeil(x) == IF x.n % x.d = 0 THEN x.n \div x.d ELSE (x.n \div x.d) + 1

(***************************************************************************)
(* C1: whenever target >= mean(blackouts) (target = 1 included), the       *)
(* threshold is exactly max(unmet_energy) + 1 and diesel_times is 0 at     *)
(* every hour.                                                             *)
(***************************************************************************)
C1_SentinelThreshold ==
    (Dispatched /\ RLe(Gap, Zero)) =>
        /\ \E m \in {unmet_energy[h] : h \in Hours} : IsMaxUnmet(m) /\ energy_threshold = FromInt(m + 1)
        /\ \A h \in Hours : diesel_times[h] = 0

C1_Witness ==
    /\ pc = "dispatched"
    /\ backup_threshold = FromInt(1)
    /\ \A h \in Hours : blackouts[h] = 1 /\ unmet_energy[h] > 0
    /\ NumHours >= 2

(***************************************************************************)
(* C2: whenever gap > 0 the threshold is the linearly interpolated         *)
(* percentile 100 * (1 - gap): with p = (1 - gap) * (N - 1) it equals      *)
(* s[floor(p)] + (p - floor(p)) * (s[ceil(p)] - s[floor(p)]).              *)
(***************************************************************************)
C2_InterpolatedPercentile ==
    (Dispatched /\ RGt(Gap, Zero)) =>
        LET p == RMul(RSub(FromInt(1), Gap), FromInt(NumHours - 1))
            lo == Ascending(RFloor(p))
            hi == Ascending(RCeil(p))
        IN  energy_threshold =
                RAdd(FromInt(lo),
                     RMul(RSub(p, FromInt(RFloor(p))), FromInt(hi - lo)))

C2_Witness ==
    /\ pc = "dispatched"
    /\ RGt(Gap, Zero)
    /\ energy_threshold.d > 1
    /\ NumHours >= 3

(***************************************************************************)
(* C3: diesel_times[h] = 1 exactly when unmet_energy[h] >= threshold (an   *)
(* hour whose deficit equals the threshold is covered), 0 otherwise, and   *)
(* diesel_energy[h] is unmet_energy[h] in an active hour and 0 otherwise.  *)
(***************************************************************************)
C3_DispatchPerHour ==
    Dispatched =>
        \A h \in Hours :
            /\ diesel_times[h] =
                   (IF FromInt(unmet_energy[h]) = energy_threshold
                       \/ RGt(FromInt(unmet_energy[h]), energy_threshold)
                    THEN 1 ELSE 0)
            /\ diesel_energy[h] =
                   (IF diesel_times[h] = 1 THEN unmet_energy[h] ELSE 0)

C3_Witness ==
    /\ pc = "dispatched"
    /\ \E h \in Hours : /\ FromInt(unmet_energy[h]) = energy_threshold
                        /\ diesel_times[h] = 1
                        /\ diesel_energy[h] > 0
    /\ \E h \in Hours : diesel_times[h] = 0 /\ unmet_energy[h] > 0

(***************************************************************************)
(* C4 as stated: for every input with non-negative unmet energy, 0/1       *)
(* blackouts of the same non-empty length and a target in [0,1], at every  *)
(* hour diesel_energy[h] = 0 if and only if diesel_times[h] = 0.           *)
(***************************************************************************)
C4_Original ==
    Dispatched =>
        \A h \in Hours : (diesel_energy[h] = 0) <=> (diesel_times[h] = 0)

(***************************************************************************)
(* C4 amended: when moreover blackouts[h] = 1 exactly when                 *)
(* unmet_energy[h] > 0, at every hour diesel_energy[h] = 0 if and only if  *)
(* diesel_times[h] = 0.                                                    *)
(***************************************************************************)
C4_EnergyZeroIffInactive ==
    (Dispatched /\ BlackoutsMatchUnmet) =>
        \A h \in Hours : (diesel_energy[h] = 0) <=> (diesel_times[h] = 0)

C4_Witness ==
    /\ pc = "dispatched"
    /\ BlackoutsMatchUnmet
    /\ \E h \in Hours : diesel_times[h] = 1 /\ diesel_energy[h] > 0
    /\ \E h \in Hours : diesel_times[h] = 0 /\ unmet_energy[h] > 0
    /\ \E h \in Hours : unmet_energy[h] = 0

(***************************************************************************)
(* C5: at every active hour the fuel usage is at least                     *)
(* minimum_load * capacity * diesel_consumption.                           *)
(***************************************************************************)
C5_FuelFloor ==
    (pc = "done") =>
        \A h \in Hours :
            (diesel_times[h] = 1) =>
                RGe(fuel_usage[h],
                    RMul(RMul(diesel_generator.minimum_load, FromInt(capacity)),
                         diesel_generator.diesel_consumption))

C5_Witness ==
    /\ pc = "done"
    /\ \E h \in Hours :
           /\ diesel_times[h] = 1
           /\ RLt(Rat(diesel_energy[h], capacity), diesel_generator.minimum_load)
           /\ diesel_energy[h] > 0

(***************************************************************************)
(* C6: at every hour with diesel_times[h] = 0 the fuel usage is 0, even    *)
(* when minimum_load > 0; so fuel_usage[h] > 0 implies diesel_times[h] = 1.*)
(***************************************************************************)
C6_NoFuelWhenInactive ==
    (pc = "done") =>
        \A h \in Hours :
            /\ (diesel_times[h] = 0) => (fuel_usage[h] = Zero)
            /\ RGt(fuel_usage[h], Zero) => (diesel_times[h] = 1)

C6_Witness ==
    /\ pc = "done"
    /\ RGt(diesel_generator.minimum_load, Zero)
    /\ \E h \in Hours : diesel_times[h] = 0 /\ fuel_usage[h] = Zero
    /\ \E h \in Hours : diesel_times[h] = 1

(***************************************************************************)
(* C7: fuel_usage[h] = diesel_times[h] * effective_load[h] * capacity *    *)
(* diesel_consumption, where effective_load[h] is the load factor          *)
(* diesel_energy[h] / capacity when that exceeds minimum_load and          *)
(* minimum_load otherwise (equality included); with capacity 10,           *)
(* minimum_load 0.3, consumption 0.4 and energy 2 an active hour burns 1.2.*)
(***************************************************************************)
EffectiveLoad(h) ==
    LET load_factor == Rat(diesel_energy[h], capacity)
    IN  IF RLe(load_factor, diesel_generator.minimum_load)
        THEN diesel_generator.minimum_load
        ELSE load_factor

C7_FuelFormula ==
    (pc = "done") =>
        \A h \in Hours :
            /\ fuel_usage[h] =
                   Rat(diesel_times[h] * EffectiveLoad(h).n * capacity
                           * diesel_generator.diesel_consumption.n,
                       EffectiveLoad(h).d * diesel_generator.diesel_consumption.d)
            /\ (/\ capacity = 10
                /\ diesel_generator.minimum_load = Rat(3, 10)
                /\ diesel_generator.diesel_consumption = Rat(4, 10)
                /\ diesel_energy[h] = 2
                /\ diesel_times[h] = 1) => (fuel_usage[h] = Rat(12, 10))

C7_Witness ==
    /\ pc = "done"
    /\ capacity = 10
    /\ diesel_generator.minimum_load = Rat(3, 10)
    /\ diesel_generator.diesel_consumption = Rat(4, 10)
    /\ \E h \in Hours : diesel_energy[h] = 2 /\ diesel_times[h] = 1
                        /\ fuel_usage[h] = Rat(12, 10)

(***************************************************************************)
(* C8 as stated: for unmet_energy = [0,0,5,10,0], blackouts = [0,0,1,1,0]  *)
(* and target 0 the threshold is 0.0, diesel_times = [0,0,1,1,0] and       *)
(* diesel_energy = [0,0,5,10,0].                                           *)
(***************************************************************************)
Scenario ==
    /\ unmet_energy = <<0, 0, 5, 10, 0>>
    /\ blackouts = <<0, 0, 1, 1, 0>>
    /\ backup_threshold = Zero

C8_Original ==
    (Dispatched /\ Scenario) =>
        /\ energy_threshold = FromInt(0)
        /\ diesel_times = <<0, 0, 1, 1, 0>>
        /\ diesel_energy = <<0, 0, 5, 10, 0>>

(***************************************************************************)
(* C8 amended: in that scenario the threshold, the 60th percentile with    *)
(* linear interpolation, is 2.0 (position 2.4 between the sorted values 0  *)
(* and 5), diesel_times = [0,0,1,1,0] and diesel_energy = [0,0,5,10,0].    *)
(***************************************************************************)
C8_ScenarioThresholdTwo ==
    (Dispatched /\ Scenario) =>
        /\ energy_threshold = FromInt(2)
        /\ diesel_times = <<0, 0, 1, 1, 0>>
        /\ diesel_energy = <<0, 0, 5, 10, 0>>

C8_Witness == pc = "dispatched" /\ Scenario /\ diesel_times = <<0, 0, 1, 1, 0>>

(***************************************************************************)
(* C9 as stated: when blackouts[h] = 1 exactly when unmet_energy[h] > 0,   *)
(* the fraction of hours still blacked out after the dispatch does not     *)
(* exceed the target.                                                      *)
(***************************************************************************)
C9_Original ==
    (Dispatched /\ BlackoutsMatchUnmet) =>
        RLe(Rat(Cardinality(Uncovered), NumHours), backup_threshold)

(***************************************************************************)
(* C9 amended: under the same condition the fraction of hours still        *)
(* blacked out exceeds the target by less than one hour's share, 1 / N.    *)
(***************************************************************************)
C9_WithinOneHourOfTarget ==
    (Dispatched /\ BlackoutsMatchUnmet) =>
        RLt(Rat(Cardinality(Uncovered), NumHours),
            RAdd(backup_threshold, Rat(1, NumHours)))

C9_Witness ==
    /\ pc = "dispatched"
    /\ BlackoutsMatchUnmet
    /\ RGt(Rat(Cardinality(Uncovered), NumHours), backup_threshold)
    /\ \E h \in Hours : diesel_times[h] = 1

(***************************************************************************)
(* C10: with gap > 0 and blackouts[h] = 1 exactly when unmet_energy[h] > 0 *)
(* the number of blackout hours left uncovered is less than                *)
(* target * N + 1 and, when the positive unmet-energy values are pairwise  *)
(* distinct, greater than target * N - 1.                                  *)
(***************************************************************************)
PositiveDistinct ==
    \A g, h \in Hours :
        (unmet_energy[g] > 0 /\ unmet_energy[g] = unmet_energy[h]) => g = h

TargetHours == RMul(backup_threshold, FromInt(NumHours))

C10_ApproximatesTarget ==
    (Dispatched /\ BlackoutsMatchUnmet /\ RGt(Gap, Zero)) =>
        /\ RLt(FromInt(Cardinality(Uncovered)), RAdd(TargetHours, FromInt(1)))
        /\ PositiveDistinct =>
               RGt(FromInt(Cardinality(Uncovered)), RSub(TargetHours, FromInt(1)))

C10_Witness ==
    /\ pc = "dispatched"
    /\ BlackoutsMatchUnmet
    /\ RGt(Gap, Zero)
    /\ PositiveDistinct
    /\ Cardinality(Uncovered) >= 1
    /\ RGt(TargetHours, FromInt(1))
    /\ \E h \in Hours : diesel_times[h] = 1

(***************************************************************************)
(* C11: with target = 0 the fraction of hours with diesel_times[h] = 1 is  *)
(* at least mean(blackouts), the blackout rate before backup.              *)
(***************************************************************************)
ActiveHours == {h \in Hours : diesel_times[h] = 1}
BlackoutHours == {h \in Hours : blackouts[h] = 1}

C11_CoverageAtLeastBlackoutRate ==
    (Dispatched /\ backup_threshold = Zero) =>
        RGe(Rat(Cardinality(ActiveHours), NumHours),
            Rat(Cardinality(BlackoutHours), NumHours))

C11_Witness ==
    /\ pc = "dispatched"
    /\ backup_threshold = Zero
    /\ Cardinality(BlackoutHours) >= 1
    /\ Cardinality(BlackoutHours) < NumHours
    /\ Cardinality(ActiveHours) >= Cardinality(BlackoutHours)
    /\ \E h \in Hours : diesel_times[h] = 0

(***************************************************************************)
(* C12: with target = 0 and blackouts[h] = 1 exactly when                  *)
(* unmet_energy[h] > 0, every hour with nonzero unmet energy is active.    *)
(***************************************************************************)
C12_EveryDeficitCovered ==
    (Dispatched /\ backup_threshold = Zero /\ BlackoutsMatchUnmet) =>
        \A h \in Hours : (unmet_energy[h] # 0) => (diesel_times[h] = 1)

C12_Witness ==
    /\ pc = "dispatched"
    /\ backup_threshold = Zero
    /\ BlackoutsMatchUnmet
    /\ \E g, h \in Hours : /\ unmet_energy[g] > unmet_energy[h]
                           /\ unmet_energy[h] > 0
                           /\ diesel_times[g] = 1 /\ diesel_times[h] = 1
    /\ \E h \in Hours : unmet_energy[h] = 0 /\ diesel_times[h] = 0

(***************************************************************************)
(* C16: at an active hour whose diesel_energy exceeds the capacity the     *)
(* load factor is not clamped: the fuel usage is diesel_energy[h] *        *)
(* diesel_consumption, more than capacity * diesel_consumption.            *)
(***************************************************************************)
C16_LoadFactorUnclamped ==
    (pc = "done") =>
        \A h \in Hours :
            (diesel_times[h] = 1 /\ diesel_energy[h] > capacity) =>
                /\ fuel_usage[h] =
                       RMul(FromInt(diesel_energy[h]),
                            diesel_generator.diesel_consumption)
                /\ RGt(fuel_usage[h],
                       RMul(FromInt(capacity), diesel_generator.diesel_consumption))

C16_Witness ==
    /\ pc = "done"
    /\ diesel_generator.minimum_load = FromInt(1)
    /\ \E h \in Hours : diesel_times[h] = 1 /\ diesel_energy[h] > capacity

(***************************************************************************)
(* C18: diesel_energy and diesel_times both have exactly the length of     *)
(* unmet_energy, and hour h of each output is computed from hour h of      *)
(* unmet_energy.                                                           *)
(***************************************************************************)
C18_OutputsAligned ==
    Dispatched =>
        /\ Len(diesel_energy) = Len(unmet_energy)
        /\ Len(diesel_times) = Len(unmet_energy)
        /\ DOMAIN diesel_energy = Hours /\ DOMAIN diesel_times = Hours
        /\ \A h \in Hours :
               /\ diesel_energy[h] \in {0, unmet_energy[h]}
               /\ (diesel_times[h] = 1) <=> RGe(FromInt(unmet_energy[h]), energy_threshold)
               /\ (diesel_energy[h] # 0) => (diesel_times[h] = 1)

C18_Witness ==
    /\ pc = "dispatched"
    /\ NumHours = MaxHours
    /\ Len(diesel_energy) = NumHours /\ Len(diesel_times) = NumHours
    /\ diesel_times[1] = 1 /\ diesel_times[NumHours] = 0
    /\ unmet_energy[NumHours] > 0

(***************************************************************************)
(* C19: every entry of diesel_times is either 0 or 1.                      *)
(***************************************************************************)
C19_TimesAreIndicators ==
    Dispatched => \A h \in DOMAIN diesel_times : diesel_times[h] \in {0, 1}

C19_Witness ==
    /\ pc = "dispatched"
    /\ \E h \in Hours : diesel_times[h] = 1 /\ unmet_energy[h] > 1
    /\ \E h \in Hours : diesel_times[h] = 0

(***************************************************************************)
(* C20: when every hour is a blackout and target = 0, the threshold is     *)
(* min(unmet_energy), every hour is active and diesel_energy equals        *)
(* unmet_energy at every hour.                                             *)
(***************************************************************************)
IsMinUnmet(m) == (\E h \in Hours : unmet_energy[h] = m)
                 /\ (\A h \in Hours : unmet_energy[h] >= m)

C20_AllBlackoutsZeroTarget ==
    (Dispatched /\ backup_threshold = Zero /\ \A h \in Hours : blackouts[h] = 1) =>
        /\ \E m \in {unmet_energy[h] : h \in Hours} :
               IsMinUnmet(m) /\ energy_threshold = FromInt(m)
        /\ \A h \in Hours : diesel_times[h] = 1
        /\ diesel_energy = unmet_energy

C20_Witness ==
    /\ pc = "dispatched"
    /\ backup_threshold = Zero
    /\ \A h \in Hours : blackouts[h] = 1
    /\ NumHours >= 2
    /\ unmet_energy[1] > unmet_energy[NumHours]
    /\ \A h \in Hours : diesel_times[h] = 1

(***************************************************************************)
(* C13: when unmet_energy or blackouts is empty, or the two series differ  *)
(* in length, the call fails with an InvalidInputError that reaches the    *)
(* caller, and neither a threshold nor a dispatch is returned.             *)
(***************************************************************************)
InvalidInput ==
    \/ Len(unmet_energy) = 0
    \/ Len(blackouts) = 0
    \/ Len(unmet_energy) # Len(blackouts)

C13_InvalidInputRejected ==
    (InvalidInput /\ pc # "start") =>
        /\ pc = "failed"
        /\ raised = "InvalidInputError"
        /\ diesel_energy = NoSeries /\ diesel_times = NoSeries

(***************************************************************************)
(* C14 as stated: when the diesel inputs lack the fuel-consumption field   *)
(* or the minimum-load field, parse_input_files fails with InputFileError  *)
(* and no generator and no minigrid is constructed.                        *)
(***************************************************************************)
DieselFieldMissing ==
    /\ diesel_inputs.is_dict
    /\ \/ ~Has(diesel_inputs.items, DIESEL_CONSUMPTION)
       \/ ~Has(diesel_inputs.items, MINIMUM_LOAD)

C14_Original ==
    (DieselFieldMissing /\ parse_pc # "diesel_inputs") =>
        /\ parse_pc = "failed"
        /\ parse_raised = "InputFileError"
        /\ ~diesel_backup_generator.built
        /\ ~minigrid.built

(***************************************************************************)
(* C14 amended: when the diesel inputs lack the fuel-consumption field or  *)
(* the minimum-load field, parse_input_files fails with the KeyError of    *)
(* the missing key (logged and re-raised), and no generator and no         *)
(* minigrid is constructed.                                                *)
(***************************************************************************)
C14_MissingFieldIsKeyError ==
    (DieselFieldMissing /\ parse_pc # "diesel_inputs") =>
        /\ parse_pc = "failed"
        /\ parse_raised = "KeyError"
        /\ ~diesel_backup_generator.built
        /\ ~minigrid.built

C14_Witness ==
    /\ parse_pc = "failed"
    /\ diesel_inputs.is_dict
    /\ Has(diesel_inputs.items, DIESEL_CONSUMPTION)
    /\ ~Has(diesel_inputs.items, MINIMUM_LOAD)
    /\ parse_raised = "KeyError"

(***************************************************************************)
(* C15: DieselWaterHeater.from_dict fails with InputFileError whenever the *)
(* input lacks the diesel_consumption field or the minimum_load field, and *)
(* returns no heater instance in either case.                              *)
(***************************************************************************)
C15_MissingFieldIsInputFileError ==
    (/\ heater_pc # "call"
     /\ \/ ~Has(input_data, DIESEL_CONSUMPTION)
        \/ ~Has(input_data, MINIMUM_LOAD)) =>
        /\ heater_pc = "failed"
        /\ heater_raised = "InputFileError"
        /\ ~heater.built

(***************************************************************************)
(* C21 as stated: for a series of a single hour the threshold equals that  *)
(* hour's unmet_energy value, for every target in [0,1] and either         *)
(* blackout value.                                                         *)
(***************************************************************************)
C21_Original ==
    (pc = "dispatched" /\ NumHours = 1) => energy_threshold = FromInt(unmet_energy[1])

(***************************************************************************)
(* C21 amended: for a series of a single hour the threshold equals that    *)
(* hour's unmet_energy value when the hour is a blackout and target < 1    *)
(* (gap > 0); otherwise (no blackout, or target = 1) it is that value + 1. *)
(***************************************************************************)
C21_SingleHourThreshold ==
    (pc = "dispatched" /\ NumHours = 1) =>
        energy_threshold =
            (IF blackouts[1] = 1 /\ RLt(backup_threshold, FromInt(1))
             THEN FromInt(unmet_energy[1])
             ELSE FromInt(unmet_energy[1] + 1))

C21_Witness ==
    /\ pc = "dispatched"
    /\ NumHours = 1
    /\ blackouts[1] = 1
    /\ unmet_energy[1] > 0
    /\ RGt(backup_threshold, Zero) /\ RLt(backup_threshold, FromInt(1))
    /\ energy_threshold = FromInt(unmet_energy[1])

(***************************************************************************)
(* C25: when blackouts[h] = 1 exactly when unmet_energy[h] > 0, the        *)
(* threshold is strictly positive, so the generator is never active in an  *)
(* hour without a blackout: diesel_times[h] = 1 implies blackouts[h] = 1.  *)
(***************************************************************************)
C25_NoDispatchWithoutBlackout ==
    (pc = "dispatched" /\ BlackoutsMatchUnmet) =>
        /\ RGt(energy_threshold, Zero)
        /\ \A h \in Hours : (diesel_times[h] = 1) => (blackouts[h] = 1)

C25_Witness ==
    /\ pc = "dispatched"
    /\ BlackoutsMatchUnmet
    /\ RGt(Gap, Zero)
    /\ \E h \in Hours : blackouts[h] = 0
    /\ \E h \in Hours : diesel_times[h] = 1
    /\ RLt(energy_threshold, FromInt(1))

(***************************************************************************)
(* C26: for fixed unmet_energy and blackouts and targets t1 <= t2, the     *)
(* threshold for t1 is at most the threshold for t2, and every hour active *)
(* for t2 is active for t1.  Stated on the dispatch computed for the       *)
(* target t2 of the state against every target t1 below it.                *)
(***************************************************************************)
C26_MonotoneInTarget ==
    (pc = "dispatched") =>
        \A t1 \in Targets :
            RLe(t1, backup_threshold) =>
                LET threshold1 ==
                        _find_deficit_threshold(unmet_energy, blackouts, t1)
                    times1 == DieselTimes(unmet_energy, threshold1)
                IN  /\ RLe(threshold1, energy_threshold)
                    /\ \A h \in Hours : (diesel_times[h] = 1) => (times1[h] = 1)

C26_Witness ==
    /\ pc = "dispatched"
    /\ RGt(Gap, Zero)
    /\ \E h \in Hours : diesel_times[h] = 1
    /\ \E t1 \in Targets :
           /\ RLt(t1, backup_threshold)
           /\ RLt(_find_deficit_threshold(unmet_energy, blackouts, t1),
                  energy_threshold)
           /\ \E h \in Hours :
                  /\ diesel_times[h] = 0
                  /\ DieselTimes(unmet_energy,
                         _find_deficit_threshold(unmet_energy, blackouts, t1))[h] = 1

(***************************************************************************)
(* C27: whenever mean(blackouts) - target > 0 the threshold lies between   *)
(* min(unmet_energy) and max(unmet_energy) inclusive, so at least one hour *)
(* is active, namely every hour whose unmet energy equals the maximum.     *)
(***************************************************************************)
C27_ThresholdWithinRange ==
    (pc = "dispatched" /\ RGt(Gap, Zero)) =>
        /\ \A h \in Hours :
               IsMinUnmet(unmet_energy[h]) =>
                   RLe(FromInt(unmet_energy[h]), energy_threshold)
        /\ \A h \in Hours :
               IsMaxUnmet(unmet_energy[h]) =>
                   /\ RLe(energy_threshold, FromInt(unmet_energy[h]))
                   /\ diesel_times[h] = 1
        /\ \E h \in Hours : diesel_times[h] = 1

C27_Witness ==
    /\ pc = "dispatched"
    /\ RGt(Gap, Zero)
    /\ \E g, h \in Hours :
           /\ IsMinUnmet(unmet_energy[g]) /\ IsMaxUnmet(unmet_energy[h])
           /\ RLt(FromInt(unmet_energy[g]), energy_threshold)
           /\ RLt(energy_threshold, FromInt(unmet_energy[h]))
           /\ diesel_times[h] = 1 /\ diesel_times[g] = 0

(***************************************************************************)
(* C28: at every active hour fuel_usage[h] >= diesel_energy[h] *           *)
(* diesel_consumption, with equality exactly when diesel_energy[h] /       *)
(* capacity >= minimum_load; the result is max(diesel_energy[h] /          *)
(* capacity, minimum_load) * capacity * diesel_consumption.                *)
(***************************************************************************)
RMax(x, y) == IF RLt(x, y) THEN y ELSE x

C28_FuelAtLeastEnergyDraw ==
    (pc = "done") =>
        \A h \in Hours :
            (diesel_times[h] = 1) =>
                LET energy_draw == RMul(FromInt(diesel_energy[h]),
                                        diesel_generator.diesel_consumption)
                    load_factor == Rat(diesel_energy[h], capacity)
                IN  /\ RGe(fuel_usage[h], energy_draw)
                    /\ (fuel_usage[h] = energy_draw)
                           <=> RGe(load_factor, diesel_generator.minimum_load)
                    /\ fuel_usage[h] =
                           RMul(RMul(RMax(load_factor, diesel_generator.minimum_load),
                                     FromInt(capacity)),
                                diesel_generator.diesel_consumption)

C28_Witness ==
    /\ pc = "done"
    /\ \E g, h \in Hours :
           /\ diesel_times[g] = 1 /\ diesel_times[h] = 1
           /\ Rat(diesel_energy[g], capacity) = diesel_generator.minimum_load
           /\ RLt(Rat(diesel_energy[h], capacity), diesel_generator.minimum_load)
           /\ RGt(fuel_usage[h], RMul(FromInt(diesel_energy[h]),
                                      diesel_generator.diesel_consumption))

(***************************************************************************)
(* C22: once the DieselGenerator is constructed its diesel_consumption,    *)
(* minimum_load and name never change: no call of the threshold, dispatch  *)
(* or fuel functions modifies them and an assignment to a field is         *)
(* rejected and leaves the field unchanged.                                *)
(***************************************************************************)
C22_GeneratorImmutable == [][diesel_generator' = diesel_generator]_vars

(***************************************************************************)
(* C23: a call of get_diesel_energy_and_times leaves unmet_energy and      *)
(* blackouts unchanged and a call of get_diesel_fuel_usage leaves          *)
(* diesel_energy, diesel_times, capacity and the generator unchanged; the  *)
(* only effect of each call is its returned value.                         *)
(***************************************************************************)
C23_CallsLeaveArgumentsUnchanged ==
    [][/\ (pc = "start" /\ pc' # "start") =>
              /\ unmet_energy' = unmet_energy
              /\ blackouts' = blackouts
              /\ backup_threshold' = backup_threshold
              /\ capacity' = capacity
              /\ diesel_generator' = diesel_generator
              /\ fuel_usage' = fuel_usage
       /\ (pc = "dispatched" /\ pc' # "dispatched") =>
              /\ diesel_energy' = diesel_energy
              /\ diesel_times' = diesel_times
              /\ capacity' = capacity
              /\ diesel_generator' = diesel_generator
              /\ unmet_energy' = unmet_energy
              /\ blackouts' = blackouts
              /\ backup_threshold' = backup_threshold
              /\ energy_threshold' = energy_threshold]_vars

C23_Witness ==
    /\ pc = "done"
    /\ RGt(diesel_generator.minimum_load, Zero)
    /\ \E h \in Hours : diesel_times[h] = 1 /\ RGt(fuel_usage[h], Zero)
    /\ \E h \in Hours : diesel_times[h] = 0 /\ unmet_energy[h] > 0

(***************************************************************************)
(* C24: when two invocations of the chain run concurrently, sharing one    *)
(* generator descriptor, under every interleaving each invocation returns  *)
(* the result it returns when run alone.                                   *)
(***************************************************************************)
AloneThreshold(i) ==
    _find_deficit_threshold(invocations[i].unmet_energy, invocations[i].blackouts,
                            invocations[i].backup_threshold)

AloneFuelUsage(i, generator) ==
    FuelUsage(invocations[i].capacity, generator,
              DieselEnergy(invocations[i].unmet_energy, AloneThreshold(i)),
              DieselTimes(invocations[i].unmet_energy, AloneThreshold(i)))

C24_ConcurrentSameAsAlone ==
    \A i \in Invocations :
        /\ invocations[i].pc \in {"dispatched", "load", "done"} =>
               /\ invocations[i].diesel_energy =
                      DieselEnergy(invocations[i].unmet_energy, AloneThreshold(i))
               /\ invocations[i].diesel_times =
                      DieselTimes(invocations[i].unmet_energy, AloneThreshold(i))
        /\ invocations[i].pc = "done" =>
               invocations[i].fuel_usage = AloneFuelUsage(i, shared_generator)

C24_Witness ==
    /\ invocations[1].pc = "done"
    /\ invocations[2].pc = "load"
    /\ invocations[1].unmet_energy # invocations[2].unmet_energy
    /\ invocations[1].capacity # invocations[2].capacity
    /\ \E h \in 1..2 : RGt(invocations[1].fuel_usage[h], Zero)
    /\ \E h \in 1..2 : RGt(invocations[2].load_factor[h], Zero)

(***************************************************************************)
(* C29: each entry of the conversion inputs is tried first as a            *)
(* WaterSource, then only after an InputFileError as a                     *)
(* ThermalDesalinationPlant, then only after a KeyError as a               *)
(* MultiInputConvertor; every entry either adds exactly one convertor,     *)
(* from the first parser in that order that succeeds, or makes parsing     *)
(* fail with an error; an entry that is not a dict fails with              *)
(* InputFileError before any parser is tried.                              *)
(***************************************************************************)
ParserOrder == <<"WaterSource", "ThermalDesalinationPlant", "MultiInputConvertor">>

EntryOutcomeOf(entry, parser) ==
    CASE parser = "WaterSource" -> entry.water_source
      [] parser = "ThermalDesalinationPlant" -> entry.thermal
      [] parser = "MultiInputConvertor" -> entry.multi

NumParsed(k) == Cardinality({i \in 1..k : attempts[i].raised = "none"})

C29_ParsersTriedInOrder ==
    /\ Len(attempts) <= Len(conversion_inputs)
    /\ Len(parsed_convertors) = NumParsed(Len(attempts))
    /\ \A i \in 1..Len(attempts) :
          LET entry == conversion_inputs[i]
              tried == attempts[i].tried
              n == Len(tried)
          IN  /\ ~entry.is_dict =>
                     /\ n = 0
                     /\ attempts[i].raised = "InputFileError"
              /\ entry.is_dict =>
                     /\ n \in 1..3
                     /\ \A k \in 1..n :
                            /\ tried[k].parser = ParserOrder[k]
                            /\ tried[k].outcome = EntryOutcomeOf(entry, ParserOrder[k])
                     /\ n >= 2 <=> entry.water_source = "InputFileError"
                     /\ n = 3 <=> (entry.water_source = "InputFileError"
                                   /\ entry.thermal = "KeyError")
                     /\ \A k \in 1..(n - 1) : tried[k].outcome # "ok"
                     /\ attempts[i].raised =
                            (IF tried[n].outcome = "ok" THEN "none"
                             ELSE tried[n].outcome)
              /\ attempts[i].raised = "none" =>
                     /\ parsed_convertors[NumParsed(i)].parser = tried[n].parser
                     /\ parsed_convertors[NumParsed(i)].name = entry.name
              /\ attempts[i].raised # "none" =>
                     /\ i = Len(attempts)
                     /\ parse_pc = "failed"
                     /\ parse_raised = attempts[i].raised
                     /\ minigrid = NoMinigrid

C29_Witness ==
    /\ parse_pc = "diesel_inputs"
    /\ Len(attempts) >= 2
    /\ attempts[1].raised = "none" /\ Len(attempts[1].tried) = 3
    /\ attempts[2].raised = "none" /\ Len(attempts[2].tried) = 2
    /\ Len(parsed_convertors) = 2

(***************************************************************************)
(* C30: DieselWaterHeater.from_dict succeeds when the electric_power field *)
(* is absent and all other fields are present; the heater then has an      *)
(* electric consumption of 0 and its diesel_consumption property equals    *)
(* the input's diesel_consumption value.                                   *)
(***************************************************************************)
ElectricAbsentOnly ==
    /\ ~Has(input_data, ELECTRIC_POWER)
    /\ \A k \in {DIESEL_CONSUMPTION, MAXIMUM_OUTPUT, MINIMUM_LOAD, NAME} :
           Has(input_data, k)

C30_ElectricPowerDefaultsToZero ==
    (heater_pc \in {"returned", "failed"} /\ ElectricAbsentOnly) =>
        /\ heater_pc = "returned"
        /\ heater_raised = "none"
        /\ heater.built
        /\ heater.input_resource_consumption.electric = Zero
        /\ HeaterDieselConsumption(heater) = input_data[DIESEL_CONSUMPTION]

C30_Witness ==
    /\ heater_pc = "returned"
    /\ ElectricAbsentOnly
    /\ heater.built
    /\ heater.input_resource_consumption.electric = Zero
====
